---- MODULE Spec2Model ----
(***************************************************************************)
(* A model of adafruit_dotstar.DotStar: the frame buffer, the pixel codec, *)
(* the brightness scaler and the two transports (busio.SPI, or bit-banging *)
(* two digitalio pins).  One action per public operation of the class.     *)
(* A behaviour is a construction followed by at most MaxCalls calls; each   *)
(* state records the last call, what it did and what it transmitted.       *)
(* Whether bytearray rejects a stored value above 255 (CPython) or keeps    *)
(* its low 8 bits (CircuitPython) is left to the platform: strict.          *)
(***************************************************************************)
EXTENDS Integers, Sequences, FiniteSets, TLC

\* ------------------------------------------------------------------ bounds
\* Largest pixel count n the constructor is called with.
MaxN == 2
\* Largest line count the constructor is called with.
MaxLines == 2
\* Number of calls made on one object after its construction.
MaxCalls == 2
\* Largest pixel count of a bit-banged strip.
MaxManualN == 5
\* Brightness values are the fractions k / BrightDen.
BrightDen == 2

\* --------------------------------------------------------------- constants
START_HEADER_SIZE == 4
LED_START == 224

RGB == <<0, 1, 2>>
RBG == <<0, 2, 1>>
GRB == <<1, 0, 2>>
GBR == <<1, 2, 0>>
BRG == <<2, 0, 1>>
BGR == <<2, 1, 0>>
Orders == {RGB, RBG, GRB, GBR, BRG, BGR}

VARIABLES
    n,            \* self._n
    line,         \* self._line
    pixel_order,  \* self.pixel_order
    spi,          \* self._spi is not None (the hardware peripheral was acquired)
    strict,       \* the platform's bytearray rejects a store outside 0..255
    buf,          \* self._buf, a function 0..len-1 -> byte
    brightness,   \* self._brightness, in units of 1 / BrightDen
    auto_write,   \* self.auto_write
    released,     \* the peripheral or the pins have been deinit()ed
    call,         \* the last call made on the object and how it ended
    events,       \* what that call did, in order
    out,          \* the buffer that call's show() handed to the transport
    sent,         \* the bytes of the range that show() transmitted
    pins,         \* the pin assignments that show() made, bit-banging
    calls         \* the number of calls made so far

vars == <<n, line, pixel_order, spi, strict, buf, brightness, auto_write,
          released, call, events, out, sent, pins, calls>>

\* ------------------------------------------------------------------ layout
EndHeaderSize(k) == (k \div 16) + (IF k % 16 # 0 THEN 1 ELSE 0)

EndHeaderIndex(k) == START_HEADER_SIZE + k * 4 - EndHeaderSize(k)

BufLen(k, l) == l * k * 4 + l * START_HEADER_SIZE + l * EndHeaderSize(k)

\* One pass of the constructor's "for j in range(line)" body.
InitLine(b, k, j) ==
    [x \in DOMAIN b |->
        LET i == x - j * k IN
        IF i \in 0 .. (START_HEADER_SIZE - 1) THEN 0
        ELSE IF i >= START_HEADER_SIZE /\ i < EndHeaderIndex(k)
                /\ (i - START_HEADER_SIZE) % 4 = 0 THEN 255
        ELSE IF i >= EndHeaderIndex(k)
                /\ i < EndHeaderIndex(k) + EndHeaderSize(k) THEN 255
        ELSE b[x]]

RECURSIVE InitLines(_, _, _, _)
InitLines(b, k, l, j) ==
    IF j >= l THEN b ELSE InitLines(InitLine(b, k, j), k, l, j + 1)

InitBuf(k, l) == InitLines([x \in 0 .. (BufLen(k, l) - 1) |-> 0], k, l, 0)

\* min(max(brightness, 0.0), 1.0)
Clamp(g) == IF g < 0 THEN 0 ELSE IF g > BrightDen THEN BrightDen ELSE g

\* ------------------------------------------------------------ bytearray
BLen(b) == Cardinality(DOMAIN b)

\* Python's index normalisation of a sequence subscript.
PyIndex(b, i) == IF i < 0 THEN i + BLen(b) ELSE i

InRange(b, i) == PyIndex(b, i) >= 0 /\ PyIndex(b, i) < BLen(b)

\* b[off], b[off+1], ... := vs[1], vs[2], ... one store at a time; the first
\* store outside the bytearray raises IndexError and the stores before it stay.
RECURSIVE StoreAll(_, _, _)
StoreAll(b, off, vs) ==
    IF vs = <<>> THEN [buf |-> b, err |-> "ok"]
    ELSE IF ~InRange(b, off) THEN [buf |-> b, err |-> "IndexError"]
    ELSE StoreAll([b EXCEPT ![PyIndex(b, off)] = Head(vs)], off + 1, Tail(vs))

\* Python's a // d, for d of either sign.
FloorDiv(a, d) == IF d > 0 THEN a \div d ELSE (-a) \div (-d)

\* math.ceil(a / d) for d > 0.
CeilDiv(a, d) == -FloorDiv(-a, d)

ToSeq(b) == [i \in 1 .. BLen(b) |-> b[i - 1]]

\* ------------------------------------------------------------- pixel codec
\* A colour argument: an int 0xRRGGBB, or a tuple (r, g, b) or (r, g, b, pb)
\* with pb in units of 1 / BrightDen.
IntColor(v) == [kind |-> "int", v |-> v, t |-> <<>>]
TupleColor(t) == [kind |-> "tuple", v |-> 0, t |-> t]
NoColor == [kind |-> "none", v |-> 0, t |-> <<>>]

\* rgb = value, or (value >> 16, (value >> 8) & 0xff, value & 0xff)
RgbOf(value) ==
    IF value.kind = "int"
    THEN <<value.v \div 65536, (value.v \div 256) % 256, value.v % 256>>
    ELSE value.t

\* 32 - int(32 - brightness * 31) & 0b00011111
BrightnessByte(pb) == (32 - ((32 * BrightDen - pb * 31) \div BrightDen)) % 32

\* DotStar._set_item on bytearray b.
SetItem(b, index, value) ==
    LET num    == IF index > n THEN CeilDiv(n, index) ELSE 0
        offset == index * 4 + (START_HEADER_SIZE * (num + 1))
        rgb    == RgbOf(value)
        pb     == IF Len(rgb) = 4 THEN value.t[4] ELSE BrightDen
    IN  StoreAll(b, offset, <<BrightnessByte(pb) + LED_START,
                              rgb[pixel_order[1] + 1],
                              rgb[pixel_order[2] + 1],
                              rgb[pixel_order[3] + 1]>>)

\* DotStar.__getitem__ with an int index.
GetItem(b, index) ==
    LET i == IF index < 0 THEN index + n ELSE index
        offset == i * 4
    IN  IF i >= n \/ i < 0
        THEN [err |-> "IndexError", ret |-> <<>>]
        ELSE [err |-> "ok",
              ret |-> <<b[offset + 3 + START_HEADER_SIZE],
                        b[offset + 2 + START_HEADER_SIZE],
                        b[offset + 1 + START_HEADER_SIZE]>>]

\* --------------------------------------------------------------- transport
\* The copy show() makes when self.brightness < 1.0.
Scaled(b, g) ==
    [x \in DOMAIN b |->
        IF x < START_HEADER_SIZE THEN 0
        ELSE IF x < EndHeaderIndex(n)
             THEN (IF x % 4 = 0 THEN b[x] ELSE (b[x] * g) \div BrightDen)
        ELSE 255]

\* The buffer show() passes on: self._buf itself, or the scaled copy.
Render(b, g) == IF g < BrightDen THEN Scaled(b, g) ELSE b

\* DotStar._ds_writebytes(buf, start, length) from bit k of byte i on: the
\* loops "for i in range(start, length)" and "for _ in range(8)".  The store
\* buf[i] = buf[i] << 1 of a value above 255 raises ValueError where bytearray
\* checks the range and keeps the low 8 bits where it does not.
RECURSIVE WriteBytes(_, _, _, _, _)
WriteBytes(b, i, k, length, ps) ==
    IF i >= length THEN [buf |-> b, pins |-> ps, err |-> "ok"]
    ELSE IF k >= 8 THEN WriteBytes(b, i + 1, 0, length, ps)
    ELSE LET driven  == ps \o <<<<"cpin", TRUE>>,
                               <<"dpin", (b[i] \div 128) % 2 = 1>>,
                               <<"cpin", FALSE>>>>
             shifted == b[i] * 2
         IN  IF shifted > 255 /\ strict
             THEN [buf |-> b, pins |-> driven, err |-> "ValueError"]
             ELSE WriteBytes([b EXCEPT ![i] = shifted % 256], i, k + 1,
                             length, driven)

\* DotStar.show(line) on live buffer b.  gone: the collaborator, already
\* deinit()ed, refuses the write.  Result: the live buffer afterwards, the
\* buffer and the range handed to the transport, the pin assignments made.
Show(b, g, ln, gone) ==
    LET rendered == Render(b, g)
        first    == ln * n
        last     == (ln + 1) * n
        range    == SubSeq(ToSeq(rendered), first + 1, last)
        w        == WriteBytes(rendered, first, 0, last, <<>>)
    IN  IF gone
        THEN [buf |-> b, err |-> "ReleasedError", out |-> ToSeq(rendered),
              sent |-> <<>>, pins |-> <<>>]
        ELSE IF spi
        THEN [buf |-> b, err |-> "ok", out |-> ToSeq(rendered),
              sent |-> range, pins |-> <<>>]
        ELSE [buf  |-> IF g < BrightDen THEN b ELSE w.buf,
              err  |-> w.err,
              out  |-> ToSeq(rendered),
              sent |-> range,
              pins |-> IF w.err = "ok" THEN w.pins \o <<<<"cpin", FALSE>>>>
                       ELSE w.pins]

\* -------------------------------------------------------------- operations
\* What a call leaves behind: the live buffer, the flags, how it ended, what
\* it did in order, and what it handed to the transport (empty: nothing).
Outcome(b, g, aw, rel, err, ev, out_, sent_, pins_) ==
    [buf |-> b, brightness |-> g, auto_write |-> aw, released |-> rel,
     err |-> err, events |-> ev, out |-> out_, sent |-> sent_, pins |-> pins_]

\* "if self.auto_write: self.show()" at the end of a setter, after events ev.
AutoShow(b, g, aw, ev, gone) ==
    IF aw
    THEN LET s == Show(b, g, 0, gone)
         IN  Outcome(s.buf, g, aw, released, s.err, ev \o <<"flush">>,
                     s.out, s.sent, s.pins)
    ELSE Outcome(b, g, aw, released, "ok", ev, <<>>, <<>>, <<>>)

\* DotStar.__setitem__ with an int index.
SetItemCall(b, aw, index, val, gone) ==
    LET r == SetItem(b, index, val)
    IN  IF r.err # "ok"
        THEN Outcome(r.buf, brightness, aw, released, r.err, <<"write">>,
                     <<>>, <<>>, <<>>)
        ELSE AutoShow(r.buf, brightness, aw, <<"write">>, gone)

Max(a, b) == IF a > b THEN a ELSE b
Min(a, b) == IF a < b THEN a ELSE b

\* slice(start, stop, step).indices(len); <<>> stands for None, step is not 0.
SliceIndices(start, stop, step, len) ==
    LET st    == IF step = <<>> THEN 1 ELSE step[1]
        lower == IF st > 0 THEN 0 ELSE -1
        upper == IF st > 0 THEN len ELSE len - 1
        Adj(x, dflt) == IF x = <<>> THEN dflt
                        ELSE IF x[1] < 0 THEN Max(x[1] + len, lower)
                        ELSE Min(x[1], upper)
    IN  [start |-> Adj(start, IF st < 0 THEN upper ELSE lower),
         stop  |-> Adj(stop, IF st < 0 THEN lower ELSE upper),
         step  |-> st]

\* list(range(start, stop, step))
RangeSeq(start, stop, step) ==
    LET count == IF step > 0
                 THEN (IF start < stop THEN (stop - start - 1) \div step + 1 ELSE 0)
                 ELSE (IF start > stop THEN (start - stop - 1) \div (-step) + 1 ELSE 0)
    IN  [k \in 1 .. count |-> start + (k - 1) * step]

\* The length __setitem__ compares len(val) with.
SliceLength(start, stop, step) ==
    IF step # 0 THEN FloorDiv((stop - start) + step - 1, step) ELSE stop - start

\* "for val_i, in_i in enumerate(range(start, stop, step))" from entry k on.
RECURSIVE SetRangeLoop(_, _, _, _)
SetRangeLoop(b, idxs, vals, k) ==
    IF k > Len(idxs) THEN [buf |-> b, err |-> "ok"]
    ELSE IF k > Len(vals) THEN [buf |-> b, err |-> "IndexError"]
    ELSE LET r == SetItem(b, idxs[k], vals[k])
         IN  IF r.err # "ok" THEN r ELSE SetRangeLoop(r.buf, idxs, vals, k + 1)

\* DotStar.__setitem__ with a slice index.
SetSliceCall(b, aw, start, stop, step, vals, gone) ==
    LET ix == SliceIndices(start, stop, step, n)
        r  == SetRangeLoop(b, RangeSeq(ix.start, ix.stop, ix.step), vals, 1)
    IN  IF Len(vals) # SliceLength(ix.start, ix.stop, ix.step)
        THEN Outcome(b, brightness, aw, released, "ValueError", <<>>,
                     <<>>, <<>>, <<>>)
        ELSE IF r.err # "ok"
        THEN Outcome(r.buf, brightness, aw, released, r.err, <<"write">>,
                     <<>>, <<>>, <<>>)
        ELSE AutoShow(r.buf, brightness, aw, <<"write">>, gone)

\* "for i in range(self._n): self[i] = color" with auto_write off, from i on.
RECURSIVE FillLoop(_, _, _)
FillLoop(b, i, color) ==
    IF i >= n THEN Outcome(b, brightness, FALSE, released, "ok", <<>>,
                           <<>>, <<>>, <<>>)
    ELSE LET o == SetItemCall(b, FALSE, i, color, FALSE)
         IN  IF o.err # "ok" THEN o
             ELSE LET rest == FillLoop(o.buf, i + 1, color)
                  IN  [rest EXCEPT !.events = o.events \o rest.events]

\* A fill that leaves auto_write alone while it stores: a flush per pixel.
RECURSIVE FillEachLoop(_, _, _, _, _)
FillEachLoop(b, aw, i, color, gone) ==
    IF i >= n THEN Outcome(b, brightness, aw, released, "ok", <<>>,
                           <<>>, <<>>, <<>>)
    ELSE LET o == SetItemCall(b, aw, i, color, gone)
         IN  IF o.err # "ok" \/ i = n - 1 THEN o
             ELSE LET rest == FillEachLoop(o.buf, aw, i + 1, color, gone)
                  IN  [rest EXCEPT !.events = o.events \o rest.events]

FillFlushEach(b, aw, color, gone) == FillEachLoop(b, aw, 0, color, gone)

\* DotStar.fill: an exception leaves self.auto_write False.
FillCall(b, aw, color, gone) ==
    LET l == FillLoop(b, 0, color)
        o == AutoShow(l.buf, brightness, aw, l.events, gone)
    IN  IF l.err # "ok" THEN l
        ELSE IF o.err # "ok" THEN [o EXCEPT !.auto_write = FALSE]
        ELSE o

\* The brightness setter.
BrightnessCall(b, aw, g, gone) ==
    AutoShow(b, Clamp(g), aw, <<"brightness">>, gone)

\* DotStar.show(line) called by the user.
ShowCall(b, aw, ln, gone) ==
    LET s == Show(b, brightness, ln, gone)
    IN  Outcome(s.buf, brightness, aw, released, s.err, <<"flush">>,
                s.out, s.sent, s.pins)

\* The loop of deinit that blanks the colour bytes.
Blank(b) ==
    [x \in DOMAIN b |->
        IF x >= START_HEADER_SIZE /\ x < EndHeaderIndex(n) /\ x % 4 # 0
        THEN 0 ELSE b[x]]

\* DotStar.deinit.
DeinitCall(b, gone) ==
    LET s == Show(Blank(b), brightness, 0, gone)
    IN  IF s.err # "ok"
        THEN Outcome(s.buf, brightness, FALSE, released, s.err,
                     <<"blank", "flush">>, s.out, s.sent, s.pins)
        ELSE Outcome(s.buf, brightness, FALSE, TRUE, "ok",
                     <<"blank", "flush", "release">>, s.out, s.sent, s.pins)

\* ------------------------------------------------------------------ inputs
Colors == {TupleColor(<<200, 100, 50>>), IntColor(98559)}

\* Value lists for a slice assignment: the prefixes of one list.
Palette ==
    <<TupleColor(<<200, 100, 50>>), IntColor(98559),
      TupleColor(<<255, 0, 128, 1>>), TupleColor(<<1, 2, 3>>),
      TupleColor(<<4, 5, 6>>), TupleColor(<<7, 8, 9>>)>>

ValueLists == {SubSeq(Palette, 1, k) : k \in 0 .. Min(n + 2, Len(Palette))}

Indices == {-(2 * n + 2), -(n + 1), -1} \cup (0 .. (n + 1))

\* slice(start, stop, step), <<>> standing for None: [:], [0:n:2], [::-1],
\* [n:0] and [::-2].
Slices ==
    {<< <<>>, <<>>, <<>> >>,
     << <<0>>, <<n>>, <<2>> >>,
     << <<>>, <<>>, <<-1>> >>,
     << <<n>>, <<0>>, <<>> >>,
     << <<>>, <<>>, <<-2>> >>}

BrightnessInputs == -1 .. (BrightDen + 1)

\* Whether a collaborator used after its deinit() refuses the use.
Refusals == IF released THEN BOOLEAN ELSE {FALSE}

\* ----------------------------------------------------------------- actions
NoCall ==
    [op |-> "init", index |-> 0, value |-> NoColor, start |-> <<>>,
     stop |-> <<>>, step |-> <<>>, vals |-> <<>>, g |-> 0, ln |-> 0,
     aw |-> FALSE, was_released |-> FALSE, err |-> "ok", ret |-> <<>>]

Entered(op) == [NoCall EXCEPT !.op = op, !.aw = auto_write,
                              !.was_released = released]

Commit(c, o) ==
    /\ calls < MaxCalls
    /\ calls' = calls + 1
    /\ buf' = o.buf
    /\ brightness' = o.brightness
    /\ auto_write' = o.auto_write
    /\ released' = o.released
    /\ events' = o.events
    /\ out' = o.out
    /\ sent' = o.sent
    /\ pins' = o.pins
    /\ call' = [c EXCEPT !.err = o.err]
    /\ UNCHANGED <<n, line, pixel_order, spi, strict>>

\* DotStar.__init__: the buffer is laid out, then the brightness setter runs
\* with auto_write False, then auto_write takes the argument's value.
Construct(counts) ==
    /\ n \in counts
    /\ line \in 1 .. MaxLines
    /\ pixel_order \in Orders
    /\ spi \in BOOLEAN
    /\ strict \in (IF spi THEN {FALSE} ELSE BOOLEAN)
    /\ released = FALSE
    /\ calls = 0
    /\ \E g \in 0 .. BrightDen :
          LET o == BrightnessCall(InitBuf(n, line), FALSE, g, FALSE)
          IN  /\ buf = o.buf
              /\ brightness = o.brightness
              /\ events = o.events
              /\ out = o.out
              /\ sent = o.sent
              /\ pins = o.pins
              /\ call = [NoCall EXCEPT !.g = g, !.err = o.err]
    /\ auto_write \in BOOLEAN

Init == Construct(1 .. MaxN)

Set ==
    \E index \in Indices, value \in Colors, gone \in Refusals :
        Commit([Entered("set") EXCEPT !.index = index, !.value = value],
               SetItemCall(buf, auto_write, index, value, gone))

Get ==
    \E index \in Indices :
        LET r == GetItem(buf, index)
        IN  /\ calls < MaxCalls
            /\ calls' = calls + 1
            /\ call' = [Entered("get") EXCEPT !.index = index, !.err = r.err,
                                              !.ret = r.ret]
            /\ events' = <<>>
            /\ out' = <<>>
            /\ sent' = <<>>
            /\ pins' = <<>>
            /\ UNCHANGED <<n, line, pixel_order, spi, strict, buf, brightness,
                           auto_write, released>>

SetRange ==
    \E sl \in Slices, vals \in ValueLists, gone \in Refusals :
        Commit([Entered("setRange") EXCEPT !.start = sl[1], !.stop = sl[2],
                                           !.step = sl[3], !.vals = vals],
               SetSliceCall(buf, auto_write, sl[1], sl[2], sl[3], vals, gone))

Fill ==
    \E color \in Colors, gone \in Refusals :
        Commit([Entered("fill") EXCEPT !.value = color],
               FillCall(buf, auto_write, color, gone))

SetBrightness ==
    \E g \in BrightnessInputs, gone \in Refusals :
        Commit([Entered("setBrightness") EXCEPT !.g = g],
               BrightnessCall(buf, auto_write, g, gone))

Flush ==
    \E ln \in 0 .. (line - 1), gone \in Refusals :
        Commit([Entered("flush") EXCEPT !.ln = ln],
               ShowCall(buf, auto_write, ln, gone))

Deinit ==
    \E gone \in Refusals :
        Commit(Entered("deinit"), DeinitCall(buf, gone))

Next ==
    \/ Set
    \/ Get
    \/ SetRange
    \/ Fill
    \/ SetBrightness
    \/ Flush
    \/ Deinit

Spec == Init /\ [][Next]_vars

\* The setters and show() on a single-line strip with the default pixel order.
InitAuto == Init /\ line = 1 /\ pixel_order = BGR

NextAuto ==
    \/ Set
    \/ SetRange
    \/ Fill
    \/ SetBrightness
    \/ Flush

SpecAuto == InitAuto /\ [][NextAuto]_vars

\* A single-line strip without a hardware peripheral: the bit-banged path.
InitManual == Construct(1 .. MaxManualN) /\ ~spi /\ line = 1 /\ pixel_order = BGR

NextManual ==
    \/ Set
    \/ Fill
    \/ SetBrightness
    \/ Flush

SpecManual == InitManual /\ [][NextManual]_vars

\* ------------------------------------------------------------------ claims
Setters == {"set", "setRange", "fill", "setBrightness"}

FlushCount(ev) == Cardinality({i \in 1 .. Len(ev) : ev[i] = "flush"})

\* A step of the model is a call: the stuttering steps are not.
IsCall == calls' = calls + 1

\* The 4 bytes of pixel frame i of line 0.
Frame(b, i) ==
    <<b[START_HEADER_SIZE + 4 * i], b[START_HEADER_SIZE + 4 * i + 1],
      b[START_HEADER_SIZE + 4 * i + 2], b[START_HEADER_SIZE + 4 * i + 3]>>

\* The pixel frame a colour argument is stored as.
Encoded(value) ==
    LET rgb == RgbOf(value)
        pb  == IF Len(rgb) = 4 THEN rgb[4] ELSE BrightDen
    IN  <<LED_START + BrightnessByte(pb), rgb[pixel_order[1] + 1],
          rgb[pixel_order[2] + 1], rgb[pixel_order[3] + 1]>>

\* The bytes per line the protocol needs for k pixels.
FrameLen(k) == 4 * k + 4 + CeilDiv(k, 16)

\* C1: on an active single-line strip, a set(i, (r, g, b)) with i in [0, n)
\* that succeeds, followed at once by get(i), returns (r, g, b), whatever the
\* pixel order.
C1_RoundTrip ==
    [][(/\ IsCall
        /\ line = 1
        /\ ~released
        /\ call.op = "set"
        /\ call.err = "ok"
        /\ call.index \in 0 .. (n - 1)
        /\ call'.op = "get"
        /\ call'.index = call.index)
       => (/\ call'.err = "ok"
           /\ call'.ret = SubSeq(RgbOf(call.value), 1, 3))]_vars

\* C2: on an active single-line strip, set(index, color) with index >= n or
\* index < -n raises IndexError, changes no byte of the buffer and flushes
\* nothing, with auto_write set or clear.
C2_OutOfRangeSetRejected ==
    [][(/\ IsCall
        /\ line = 1
        /\ ~released
        /\ call'.op = "set"
        /\ (call'.index >= n \/ call'.index < -n))
       => (/\ call'.err = "IndexError"
           /\ buf' = buf
           /\ FlushCount(events') = 0
           /\ sent' = <<>>)]_vars

\* C3: on an active single-line strip with auto_write clear, a slice
\* assignment raises the length-mismatch error and leaves the buffer as it
\* was exactly when len(colors) differs from the number of indices the slice
\* selects; otherwise it raises nothing, stores colors[k] in the frame of the
\* k-th selected index and changes no other byte.
C3_SliceAllOrNothing ==
    [][(/\ IsCall
        /\ line = 1
        /\ ~released
        /\ ~auto_write
        /\ call'.op = "setRange")
       => LET ix  == SliceIndices(call'.start, call'.stop, call'.step, n)
              sel == RangeSeq(ix.start, ix.stop, ix.step)
              hit == {START_HEADER_SIZE + 4 * sel[k] + d :
                        k \in 1 .. Len(sel), d \in 0 .. 3}
          IN  IF Len(call'.vals) # Len(sel)
              THEN call'.err = "ValueError" /\ buf' = buf
              ELSE /\ call'.err = "ok"
                   /\ \A k \in 1 .. Len(sel) :
                         Frame(buf', sel[k]) = Encoded(call'.vals[k])
                   /\ \A x \in DOMAIN buf : x \notin hit => buf'[x] = buf[x]]_vars

\* C4: the constructor flushes nothing; on an active single-line strip a
\* set, setRange, fill or setBrightness call that succeeds with auto_write
\* set makes exactly one flush, as its last step, of the buffer and the
\* brightness as the call left them; with auto_write clear such a call
\* transmits nothing, while an explicit flush that succeeds transmits once.
C4_AutoUpdate ==
    /\ call.op = "init" =>
          (FlushCount(events) = 0 /\ out = <<>> /\ sent = <<>> /\ pins = <<>>)
    /\ (line = 1 /\ ~call.was_released /\ call.op \in Setters /\ call.aw
        /\ call.err = "ok") =>
          /\ FlushCount(events) = 1
          /\ Len(events) >= 2
          /\ events[Len(events)] = "flush"
          /\ sent = SubSeq(out, 1, n)
          /\ \A x \in 1 .. Len(out) :
                (spi \/ brightness < BrightDen \/ x > n)
                    => out[x] = ToSeq(Render(buf, brightness))[x]
          /\ ~spi => pins # <<>>
    /\ (line = 1 /\ ~call.was_released /\ call.op \in Setters /\ ~call.aw) =>
          (FlushCount(events) = 0 /\ out = <<>> /\ sent = <<>> /\ pins = <<>>)
    /\ (line = 1 /\ ~call.was_released /\ call.op = "flush"
        /\ call.err = "ok") =>
          (events = <<"flush">> /\ Len(sent) = n)

\* A fill of a strip of at least 2 pixels with auto_write set has succeeded:
\* one write per pixel, then the one flush.
C4_Witness ==
    /\ line = 1
    /\ n >= 2
    /\ call.op = "fill"
    /\ call.aw
    /\ call.err = "ok"
    /\ Len(events) = n + 1
    /\ FlushCount(events) = 1
    /\ Len(sent) = n

\* C5: on an active single-line strip with brightness g < 1, in the buffer
\* flush(0) hands to the transport every pixel's header byte is the stored one,
\* each colour byte is the stored one times g truncated, and the start-frame
\* and end-frame bytes are those of the stored buffer.
C5_BrightnessScaling ==
    (/\ line = 1
     /\ ~call.was_released
     /\ call.op = "flush"
     /\ call.ln = 0
     /\ brightness < BrightDen)
    => /\ Len(out) = FrameLen(n)
       /\ \A i \in 0 .. (n - 1) :
             /\ out[START_HEADER_SIZE + 4 * i + 1] = buf[START_HEADER_SIZE + 4 * i]
             /\ \A c \in 1 .. 3 :
                   out[START_HEADER_SIZE + 4 * i + c + 1]
                      = (buf[START_HEADER_SIZE + 4 * i + c] * brightness) \div BrightDen
       /\ \A x \in 0 .. (START_HEADER_SIZE - 1) : out[x + 1] = buf[x]
       /\ \A x \in (START_HEADER_SIZE + 4 * n) .. (FrameLen(n) - 1) :
             out[x + 1] = buf[x]

\* C6: deinit() on an active single-line strip blanks, then flushes, then
\* releases; it leaves every header byte as it was, and every colour byte of
\* every pixel is 0 when it returns.
C6_DeinitBlanks ==
    [][(/\ IsCall
        /\ line = 1
        /\ ~released
        /\ call'.op = "deinit"
        /\ call'.err = "ok")
       => (/\ events' = <<"blank", "flush", "release">>
           /\ released'
           /\ \A i \in 0 .. (n - 1) :
                 /\ buf'[START_HEADER_SIZE + 4 * i] = buf[START_HEADER_SIZE + 4 * i]
                 /\ \A c \in 1 .. 3 : buf'[START_HEADER_SIZE + 4 * i + c] = 0)]_vars

\* C7: a deinit() after the first one raises nothing, writes nothing through
\* the released peripheral or pins, releases nothing again and leaves the
\* strip as it was.
C7_DeinitIdempotent ==
    [][(/\ IsCall
        /\ released
        /\ call'.op = "deinit")
       => (/\ call'.err = "ok"
           /\ events' = <<>>
           /\ released'
           /\ buf' = buf)]_vars

\* C8: on an active single-line strip, a flush(0) that succeeds transmits
\* the whole frame in order, 4n + 4 + ceil(n/16) bytes: the buffer it was
\* handed, from the start frame to the end frame.
C8_FlushTransmitsFrame ==
    (/\ line = 1
     /\ ~call.was_released
     /\ call.op = "flush"
     /\ call.ln = 0
     /\ call.err = "ok")
    => (/\ Len(sent) = FrameLen(n)
        /\ sent = out)

\* C9: after construction, in the region of each line k, of
\* 4n + 4 + ceil(n/16) bytes from offset k times that length, the 4
\* start-frame bytes are 0x00, each pixel's header byte is 0xFF and its 3
\* colour bytes 0x00, and every end-frame byte is 0xFF.
C9_InitialLayout ==
    call.op = "init" =>
        \A k \in 0 .. (line - 1) :
            LET base == k * FrameLen(n) IN
            /\ BLen(buf) = line * FrameLen(n)
            /\ \A x \in 0 .. 3 : buf[base + x] = 0
            /\ \A i \in 0 .. (n - 1) :
                  /\ buf[base + 4 + 4 * i] = 255
                  /\ \A c \in 1 .. 3 : buf[base + 4 + 4 * i + c] = 0
            /\ \A x \in (4 + 4 * n) .. (FrameLen(n) - 1) : buf[base + x] = 255

\* Bit k (7 the most significant) of byte v.
Bit(v, k) == (v \div (2 ^ k)) % 2 = 1

\* clock high, data := bit, clock low, for bits 7 down to 0 of each byte.
RECURSIVE BitBanged(_)
BitBanged(bytes) ==
    IF bytes = <<>> THEN <<>>
    ELSE [j \in 1 .. 24 |->
             IF j % 3 = 1 THEN <<"cpin", TRUE>>
             ELSE IF j % 3 = 2 THEN <<"dpin", Bit(Head(bytes), 7 - ((j - 1) \div 3))>>
             ELSE <<"cpin", FALSE>>]
         \o BitBanged(Tail(bytes))

\* C10: without a hardware peripheral, a flush(0) of an active single-line
\* strip raises nothing and drives, for each byte of its range in order and
\* each bit from 7 down to 0, clock high, data := bit, clock low, and leaves
\* the clock low.
C10_BitBang ==
    (/\ ~spi
     /\ line = 1
     /\ ~call.was_released
     /\ call.op = "flush"
     /\ call.ln = 0)
    => (/\ call.err = "ok"
        /\ pins = BitBanged(sent) \o << <<"cpin", FALSE>> >>)

====
